---- MODULE Spec2Model ----
(***************************************************************************)
(* Model of packages/calendar/src/compute.js: the calendar layout engine   *)
(* (computeLayout and its helpers), the data binder (bindDaysData) and the *)
(* legend position functions.                                              *)
(*                                                                         *)
(* Dates are whole days counted from 2013-01-01 (day 0), a Tuesday; the    *)
(* host time zone is UTC, so the local and the UTC getters of a Date       *)
(* agree.  JavaScript numbers are exact rationals extended with NaN,       *)
(* +Infinity, -Infinity and undefined.                                     *)
(***************************************************************************)
EXTENDS Integers, Sequences, FiniteSets, TLC

VARIABLES
    mode,       \* which entry point this run exercises
    pc,         \* position of the caller
    cfg,        \* configuration handed to computeLayout
    layout,     \* outcome of computeLayout
    cells,      \* the day cells handed to bindDaysData (mutated in place)
    lastData,   \* arguments of the latest bindDaysData call
    legendIn,   \* arguments of the legend position functions
    yearLegend, \* position -> result of computeYearLegendPositions
    monthLegend, \* position -> result of computeMonthLegendPositions
    cache,      \* the entries of the memoize cache of memoMonthPathAndBBox
    memoCall,   \* the latest call of memoMonthPathAndBBox: its number, arguments, result
    props,      \* the configuration the component hands to useCalendarLayout
    memo,       \* what useMemo keeps between renders: the dependencies and the value
    hookOut     \* what the latest call of useCalendarLayout returned

memoVars == <<cache, memoCall>>
hookVars == <<props, memo, hookOut>>
vars == <<mode, pc, cfg, layout, cells, lastData, legendIn, yearLegend, monthLegend, memoVars, hookVars>>

----------------------------------------------------------------------------
(* JavaScript numbers *)

Abs(i) == IF i < 0 THEN -i ELSE i

RECURSIVE GCD(_, _)
GCD(a, b) == IF b = 0 THEN a ELSE GCD(b, a % b)

Fin(n, d) ==
    LET s == IF d < 0 THEN -1 ELSE 1
        nn == s * n
        dd == s * d
        g == GCD(Abs(nn), dd)
    IN [k |-> "fin", n |-> nn \div g, d |-> dd \div g]

Num(i) == [k |-> "fin", n |-> i, d |-> 1]
NaN == [k |-> "nan", n |-> 0, d |-> 1]
PosInf == [k |-> "inf", n |-> 1, d |-> 1]
NegInf == [k |-> "inf", n |-> -1, d |-> 1]
Undefined == [k |-> "undef", n |-> 0, d |-> 1]
TypeError == [k |-> "TypeError", n |-> 0, d |-> 1]

IsFin(a) == a.k = "fin"
IsNaN(a) == a.k \in {"nan", "undef"}
IsInf(a) == a.k = "inf"
Sgn(a) == IF a.n > 0 THEN 1 ELSE IF a.n < 0 THEN -1 ELSE 0
InfOf(s) == IF s > 0 THEN PosInf ELSE NegInf

NNeg(a) ==
    IF IsNaN(a) THEN NaN
    ELSE IF IsInf(a) THEN InfOf(-a.n)
    ELSE [k |-> "fin", n |-> -a.n, d |-> a.d]

NAdd(a, b) ==
    IF IsNaN(a) \/ IsNaN(b) THEN NaN
    ELSE IF IsInf(a) /\ IsInf(b) THEN (IF a.n = b.n THEN a ELSE NaN)
    ELSE IF IsInf(a) THEN a
    ELSE IF IsInf(b) THEN b
    ELSE Fin(a.n * b.d + b.n * a.d, a.d * b.d)

NSub(a, b) == NAdd(a, NNeg(b))

NMul(a, b) ==
    IF IsNaN(a) \/ IsNaN(b) THEN NaN
    ELSE IF IsInf(a) \/ IsInf(b)
         THEN (IF Sgn(a) = 0 \/ Sgn(b) = 0 THEN NaN ELSE InfOf(Sgn(a) * Sgn(b)))
    ELSE Fin(a.n * b.n, a.d * b.d)

NDiv(a, b) ==
    IF IsNaN(a) \/ IsNaN(b) THEN NaN
    ELSE IF IsInf(a) THEN (IF IsInf(b) THEN NaN
                           ELSE InfOf(a.n * (IF Sgn(b) < 0 THEN -1 ELSE 1)))
    ELSE IF IsInf(b) THEN Num(0)
    ELSE IF b.n = 0 THEN (IF a.n = 0 THEN NaN ELSE InfOf(Sgn(a)))
    ELSE Fin(a.n * b.d, a.d * b.n)

\* a < b on comparable numbers (false as soon as one side is NaN)
NLt(a, b) ==
    IF IsNaN(a) \/ IsNaN(b) THEN FALSE
    ELSE IF IsInf(a) THEN a.n < 0 /\ ~(IsInf(b) /\ b.n < 0)
    ELSE IF IsInf(b) THEN b.n > 0
    ELSE a.n * b.d < b.n * a.d

NLe(a, b) ==
    IF IsNaN(a) \/ IsNaN(b) THEN FALSE
    ELSE ~NLt(b, a)

\* Math.min / Math.max
MathMin(a, b) == IF IsNaN(a) \/ IsNaN(b) THEN NaN ELSE IF NLt(b, a) THEN b ELSE a
MathMax(a, b) == IF IsNaN(a) \/ IsNaN(b) THEN NaN ELSE IF NLt(a, b) THEN b ELSE a

\* a !== b
StrictNe(a, b) == IF a.k = "nan" \/ b.k = "nan" THEN TRUE ELSE a # b

----------------------------------------------------------------------------
(* Dates (Date, d3-time, d3-time-format) *)

UndefinedDate == 0 - 1
\* the Invalid Date (time value NaN) that setMonth(NaN) leaves behind
InvalidDate == 0 - 2
\* a < b on two dates: false as soon as one of them is the Invalid Date
DateLt(a, b) == a # InvalidDate /\ b # InvalidDate /\ a < b

IsLeap(y) == (y % 4 = 0 /\ y % 100 # 0) \/ y % 400 = 0
DaysInYear(y) == IF IsLeap(y) THEN 366 ELSE 365
DaysInMonth(y, m) ==
    IF m = 1 THEN (IF IsLeap(y) THEN 29 ELSE 28)
    ELSE IF m \in {3, 5, 8, 10} THEN 30 ELSE 31

RECURSIVE YearStart(_)
YearStart(y) == IF y <= 2013 THEN 0 ELSE YearStart(y - 1) + DaysInYear(y - 1)

RECURSIVE MonthStart(_, _)
MonthStart(y, m) == IF m = 0 THEN YearStart(y) ELSE MonthStart(y, m - 1) + DaysInMonth(y, m - 1)

\* new Date(y, m, d): months past December roll into the next year, day 0 is
\* the last day of the month before
NewDate(y, m, d) == MonthStart(y + (m \div 12), m % 12) + d - 1

RECURSIVE YearOf(_, _)
YearOf(t, y) == IF t < YearStart(y + 1) THEN y ELSE YearOf(t, y + 1)
getFullYear(t) == YearOf(t, 2013)

RECURSIVE MonthOf(_, _, _)
MonthOf(t, y, m) == IF m = 11 \/ t < MonthStart(y, m + 1) THEN m ELSE MonthOf(t, y, m + 1)
getMonth(t) == MonthOf(t, getFullYear(t), 0)

getDate(t) == t - MonthStart(getFullYear(t), getMonth(t)) + 1
getDay(t) == (t + 2) % 7

getUTCFullYear(t) == getFullYear(t)
getUTCMonth(t) == getMonth(t)
getUTCDay(t) == getDay(t)

\* aux.setMonth(m)
setMonth(t, m) == NewDate(getFullYear(t), m, getDate(t))

\* timeFormat('%Y-%m-%d'): the digits of year, month (01-12) and day (01-31)
dayFormat(t) ==
    LET y == getFullYear(t)
        m == getMonth(t) + 1
        d == getDate(t)
    IN <<y \div 1000, (y \div 100) % 10, (y \div 10) % 10, y % 10, "-",
         m \div 10, m % 10, "-", d \div 10, d % 10>>

\* d3 timeWeek (weeks start on Sunday)
WeekFloor(t) == t - getDay(t)
WeekCeil(t) == t + ((7 - getDay(t)) % 7)
timeYear(t) == YearStart(getFullYear(t))

\* timeWeek.count(start, end): week boundaries in (start, end]
timeWeekCount(start, end) ==
    IF start = UndefinedDate THEN NaN
    ELSE Num((WeekFloor(end) - WeekFloor(start)) \div 7)

\* timeWeeks(start, stop).length: Sundays in [start, stop)
timeWeeksLength(start, stop) ==
    IF start # InvalidDate /\ DateLt(WeekCeil(start), stop)
    THEN ((stop - 1 - WeekCeil(start)) \div 7) + 1 ELSE 0

\* timeDays(start, stop): the days of [start, stop)
timeDays(start, stop) ==
    IF DateLt(start, stop) THEN [j \in 1..(stop - start) |-> start + j - 1] ELSE <<>>

\* timeMonths(start, stop): the first days of the months of [start, stop)
RECURSIVE MonthsFrom(_, _)
MonthsFrom(t, stop) ==
    IF DateLt(t, stop)
    THEN <<t>> \o MonthsFrom(NewDate(getFullYear(t), getMonth(t) + 1, 1), stop)
    ELSE <<>>
timeMonths(start, stop) ==
    IF ~DateLt(start, stop) THEN <<>>
    ELSE MonthsFrom(IF getDate(start) = 1 THEN start
                    ELSE NewDate(getFullYear(start), getMonth(start) + 1, 1), stop)

\* lodash range(start, end): descending when end < start
range(start, end) ==
    IF start <= end THEN [j \in 1..(end - start) |-> start + j - 1]
    ELSE [j \in 1..(start - end) |-> start - j + 1]

----------------------------------------------------------------------------
(* computeCellSize *)

computeCellSize(width, height, direction, blocks, yearSpacing, monthSpacing, daySpacing, maxRowsMonth, maxColumnsGroup, monthsPerGroup) ==
    LET alongMonths(extent) ==
            NDiv(NSub(NSub(extent, NMul(monthSpacing, monthsPerGroup)),
                      NMul(daySpacing, maxColumnsGroup)),
                 maxColumnsGroup)
        alongBlocks(extent) ==
            NDiv(NSub(NSub(extent, NMul(NSub(blocks, Num(1)), yearSpacing)),
                      NMul(blocks, NMul(maxRowsMonth, daySpacing))),
                 NMul(blocks, maxRowsMonth))
        hCellSize == IF direction = "horizontal" THEN alongMonths(width) ELSE alongBlocks(width)
        vCellSize == IF direction = "horizontal" THEN alongBlocks(height) ELSE alongMonths(height)
    IN MathMin(hCellSize, vCellSize)

----------------------------------------------------------------------------
(* monthPathAndBBox *)

monthPathAndBBox(date, cellSize, yearIndex, yearSpacing, monthSpacing, daySpacing, direction, originX, originY) ==
    LET t1 == NewDate(getFullYear(date), getMonth(date) + 1, 0)
        firstWeek == timeWeekCount(timeYear(date), date)
        lastWeek == timeWeekCount(timeYear(t1), t1)
        firstDay == Num(getDay(date))
        lastDay == Num(getDay(t1))
        stride == NAdd(cellSize, daySpacing)
        yearOffset == NMul(yearIndex, NAdd(NMul(Num(7), stride), yearSpacing))
        monthOffset == NMul(Num(getMonth(date)), monthSpacing)
        xO == IF direction = "horizontal" THEN NAdd(originX, monthOffset)
              ELSE NAdd(originX, yearOffset)
        yO == IF direction = "horizontal" THEN NAdd(originY, yearOffset)
              ELSE NAdd(originY, monthOffset)
        X(n) == NAdd(xO, NMul(n, stride))
        Y(n) == NAdd(yO, NMul(n, stride))
        one == Num(1)
    IN IF direction = "horizontal"
       THEN [path |-> <<X(NAdd(firstWeek, one)), Y(firstDay),
                        X(firstWeek), Y(Num(7)),
                        X(lastWeek), Y(NAdd(lastDay, one)),
                        X(NAdd(lastWeek, one)), yO,
                        X(NAdd(firstWeek, one))>>,
             bbox |-> [x |-> X(firstWeek),
                       y |-> yO,
                       width |-> NSub(X(NAdd(lastWeek, one)), X(firstWeek)),
                       height |-> NMul(Num(7), stride)]]
       ELSE [path |-> <<X(firstDay), Y(NAdd(firstWeek, one)),
                        xO, Y(NAdd(lastWeek, one)),
                        X(NAdd(lastDay, one)), Y(lastWeek),
                        X(Num(7)), Y(firstWeek),
                        X(firstDay)>>,
             bbox |-> [x |-> xO,
                       y |-> Y(firstWeek),
                       width |-> NMul(Num(7), stride),
                       height |-> NSub(Y(NAdd(lastWeek, one)), Y(firstWeek))]]

----------------------------------------------------------------------------
(* memoMonthPathAndBBox, lines 164-179 *)

\* A string is a sequence of pieces. A number is written one character per
\* piece; a weekday name, a month name, the time-of-day tail of a date and a
\* direction keyword are one piece each. Those words hold letters, which no
\* finite number holds, so two keys are the same string exactly when they are
\* the same sequence of pieces.
Digit(i) == <<"0", "1", "2", "3", "4", "5", "6", "7", "8", "9">>[i + 1]

RECURSIVE IntToString(_)
IntToString(i) == IF i < 10 THEN <<Digit(i)>> ELSE IntToString(i \div 10) \o <<Digit(i % 10)>>

\* the digits after the decimal point of r / d, r < d, at most `left` of them
RECURSIVE FractionDigits(_, _, _)
FractionDigits(r, d, left) ==
    IF r = 0 \/ left = 0 THEN <<>>
    ELSE <<Digit((10 * r) \div d)>> \o FractionDigits((10 * r) % d, d, left - 1)

MaxFractionDigits == 17

\* Number.prototype.toString, as the template literal applies it
NumberToString(x) ==
    IF x.k = "undef" THEN <<"undefined">>
    ELSE IF x.k = "nan" THEN <<"NaN">>
    ELSE IF x.k = "inf" THEN (IF x.n < 0 THEN <<"-">> ELSE <<>>) \o <<"Infinity">>
    ELSE (IF x.n < 0 THEN <<"-">> ELSE <<>>)
         \o IntToString(Abs(x.n) \div x.d)
         \o (IF Abs(x.n) % x.d = 0 THEN <<>>
             ELSE <<".">> \o FractionDigits(Abs(x.n) % x.d, x.d, MaxFractionDigits))

DayNames == <<"Sun", "Mon", "Tue", "Wed", "Thu", "Fri", "Sat">>
MonthNames == <<"Jan", "Feb", "Mar", "Apr", "May", "Jun", "Jul", "Aug", "Sep", "Oct", "Nov", "Dec">>
TwoDigits(i) == <<Digit(i \div 10), Digit(i % 10)>>

\* Date.prototype.toString of a local midnight
DateToString(t) ==
    <<DayNames[getDay(t) + 1], " ", MonthNames[getMonth(t) + 1], " ">>
    \o TwoDigits(getDate(t)) \o <<" ">> \o IntToString(getFullYear(t))
    \o <<" 00:00:00 GMT+0000 (Coordinated Universal Time)">>

\* the resolver, lines 166-178: the template literal that joins the nine fields with '.'
resolver(a) ==
    DateToString(a.date) \o <<".">> \o NumberToString(a.cellSize)
    \o <<".">> \o NumberToString(a.yearIndex) \o <<".">> \o NumberToString(a.yearSpacing)
    \o <<".">> \o NumberToString(a.monthSpacing) \o <<".">> \o NumberToString(a.daySpacing)
    \o <<".">> \o <<a.direction>>
    \o <<".">> \o NumberToString(a.originX) \o <<".">> \o NumberToString(a.originY)

\* monthPathAndBBox on its one argument, the object of the nine fields
monthPathAndBBoxOf(a) == monthPathAndBBox(a.date, a.cellSize, a.yearIndex, a.yearSpacing, a.monthSpacing, a.daySpacing, a.direction, a.originX, a.originY)

\* the cache is a Map from key to result, here the set of its entries
Has(entries, key) == \E e \in entries : e.key = key
Get(entries, key) == (CHOOSE e \in entries : e.key = key).value

\* lodash.memoize: a key the cache holds answers the call, any other key runs
\* the function and stores what it returned
memoMonthPathAndBBox(entries, a) ==
    IF Has(entries, resolver(a))
    THEN [out |-> Get(entries, resolver(a)), cache |-> entries]
    ELSE [out |-> monthPathAndBBoxOf(a),
          cache |-> entries \cup {[key |-> resolver(a), value |-> monthPathAndBBoxOf(a)]}]

----------------------------------------------------------------------------
(* day cell positions *)

\* throws when `from` is undefined
getElapsedMonths(from, to) ==
    IF from = UndefinedDate THEN TypeError
    ELSE Num(getUTCMonth(to) - getUTCMonth(from)
             + 12 * (getUTCFullYear(to) - getUTCFullYear(from)))

getWeekOfTheMonth(date) ==
    LET firstWeekday == getDay(NewDate(getUTCFullYear(date), getUTCMonth(date), 1))
        offsetDate == getDate(date) + firstWeekday - 1
    IN offsetDate \div 7

getA(d, blockIndex, yearSpacing, daySpacing, maxRowsMonth, cellSize) ==
    LET weekOfMonth == Num(getWeekOfTheMonth(d))
        stride == NAdd(cellSize, daySpacing)
    IN NAdd(NAdd(NMul(weekOfMonth, stride), NDiv(daySpacing, Num(2))),
            NMul(blockIndex, NAdd(yearSpacing, NMul(maxRowsMonth, stride))))

getB(d, startDate, monthSpacing, daySpacing, cellSize) ==
    LET elapsedMonths == getElapsedMonths(startDate, d)
        stride == NAdd(cellSize, daySpacing)
    IN IF elapsedMonths = TypeError THEN TypeError
       ELSE NAdd(NAdd(NAdd(NMul(NMul(elapsedMonths, Num(7)), stride),
                           NMul(Num(getDay(d)), stride)),
                      NDiv(daySpacing, Num(2))),
                 NMul(elapsedMonths, monthSpacing))

getC(d, blockIndex, yearSpacing, daySpacing, maxRowsMonth, cellSize) ==
    LET stride == NAdd(cellSize, daySpacing)
    IN NAdd(NAdd(NMul(Num(getDay(d)), stride), NDiv(daySpacing, Num(2))),
            NMul(blockIndex, NAdd(yearSpacing, NMul(maxRowsMonth, stride))))

getD(d, startDate, monthSpacing, daySpacing, cellSize) ==
    LET elapsedWeeks == timeWeekCount(startDate, d)
        elapsedMonths == getElapsedMonths(startDate, d)
        stride == NAdd(cellSize, daySpacing)
    IN IF elapsedMonths = TypeError THEN TypeError
       ELSE NAdd(NAdd(NMul(elapsedWeeks, stride), NDiv(daySpacing, Num(2))),
                 NMul(elapsedMonths, monthSpacing))

\* {x: originX + a, y: originY + b}; an exception in a or b escapes
Position(originX, a, originY, b) ==
    IF a = TypeError \/ b = TypeError THEN TypeError
    ELSE [x |-> NAdd(originX, a), y |-> NAdd(originY, b)]

cellPositionHorizontalVertical(cellSize, yearSpacing, monthSpacing, daySpacing, maxRowsMonth, originX, originY, d, blockIndex, startDate) ==
    Position(originX, getD(d, startDate, monthSpacing, daySpacing, cellSize),
             originY, getC(d, blockIndex, yearSpacing, daySpacing, maxRowsMonth, cellSize))

cellPositionVerticalHorizontal(cellSize, yearSpacing, monthSpacing, daySpacing, maxRowsMonth, originX, originY, d, blockIndex, startDate) ==
    Position(originX, getC(d, blockIndex, yearSpacing, daySpacing, maxRowsMonth, cellSize),
             originY, getD(d, startDate, monthSpacing, daySpacing, cellSize))

\* getA is called without its cellSize argument
cellPositionVerticalVertical(cellSize, yearSpacing, monthSpacing, daySpacing, maxRowsMonth, originX, originY, d, blockIndex, startDate) ==
    Position(originX, getA(d, blockIndex, yearSpacing, daySpacing, maxRowsMonth, Undefined),
             originY, getB(d, startDate, monthSpacing, daySpacing, cellSize))

cellPositionHorizontalHorizontal(cellSize, yearSpacing, monthSpacing, daySpacing, maxRowsMonth, originX, originY, d, blockIndex, startDate) ==
    Position(originX, getB(d, startDate, monthSpacing, daySpacing, cellSize),
             originY, getA(d, blockIndex, yearSpacing, daySpacing, maxRowsMonth, Undefined))

----------------------------------------------------------------------------
(* computeLayout *)

\* alignBox of @nivo/core: the offset of `box` inside `container`
alignBox(boxWidth, boxHeight, containerWidth, containerHeight, align) ==
    LET deltaX == NSub(containerWidth, boxWidth)
        deltaY == NSub(containerHeight, boxHeight)
    IN IF align = "center" THEN <<NDiv(deltaX, Num(2)), NDiv(deltaY, Num(2))>>
       ELSE IF align = "bottom-right" THEN <<deltaX, deltaY>>
       ELSE <<Num(0), Num(0)>>

\* the last year of a chunk closes the block: [Jan 1 of arr[0], Jan 1 of arr[last] + 1]
YearBlock(arr) == <<NewDate(arr[1], 0, 1), NewDate(arr[Len(arr)] + 1, 0, 1)>>

\* while (yearRange.length) { arr = yearRange.splice(0, breakpoint); dates.push(...) }
\* for a breakpoint that is a whole number >= 1
RECURSIVE YearBlocks(_, _)
YearBlocks(yearRange, breakpoint) ==
    IF Len(yearRange) = 0 THEN <<>>
    ELSE LET n == IF breakpoint.n < Len(yearRange) THEN breakpoint.n ELSE Len(yearRange)
         IN <<YearBlock(SubSeq(yearRange, 1, n))>>
            \o YearBlocks(SubSeq(yearRange, n + 1, Len(yearRange)), breakpoint)

\* the inner while (i < breakpoint) of the month branch
RECURSIVE ScanRows(_, _, _, _, _)
ScanRows(date, aux, breakpoint, maxRowsMonth, i) ==
    IF ~NLt(Num(i), breakpoint) THEN maxRowsMonth
    ELSE LET weekDay == getUTCDay(aux)
             days == getDate(NewDate(getUTCFullYear(date), getUTCMonth(date) + i, 0))
         IN IF days + weekDay >= 37 THEN Num(6)
            ELSE IF days + weekDay = 28
                 THEN ScanRows(date, aux, breakpoint, MathMax(maxRowsMonth, Num(4)), i + 1)
            ELSE ScanRows(date, aux, breakpoint, Num(5), i + 1)

\* a walk that steps one month at a time, whatever the breakpoint
MutNextBlockStart(aux, breakpoint) == setMonth(aux, getMonth(aux) + 1)

\* aux.setMonth(aux.getMonth() + breakpoint): a month that is NaN makes aux the
\* Invalid Date
NextBlockStart(aux, breakpoint) == IF IsFin(breakpoint) THEN setMonth(aux, getMonth(aux) + breakpoint.n) ELSE InvalidDate

\* the outer while (date < toDate) of the month branch
RECURSIVE MonthBlocks(_, _, _, _, _, _, _)
MonthBlocks(date, aux, toDate, weekDirection, breakpoint, maxRowsMonth, dates) ==
    IF ~DateLt(date, toDate) THEN [dates |-> dates, maxRowsMonth |-> maxRowsMonth]
    ELSE LET rows == IF weekDirection = "horizontal" /\ StrictNe(maxRowsMonth, Num(6))
                     THEN ScanRows(date, aux, breakpoint, maxRowsMonth, 0)
                     ELSE maxRowsMonth
             aux2 == NextBlockStart(aux, breakpoint)
         IN MonthBlocks(aux2, aux2, toDate, weekDirection, breakpoint, rows,
                        Append(dates, <<date, aux2>>))

\* lines 326-365: the block list and the maxRowsMonth left by the partition
Partition(c) ==
    LET fromDate == c.from
        toDate == c.to
    IN IF c.granularity = "year"
       THEN [dates |-> YearBlocks(range(getUTCFullYear(fromDate), getUTCFullYear(toDate) + 1),
                                  c.breakpoint),
             maxRowsMonth |-> IF c.weekDirection = "horizontal" THEN Num(6) ELSE Undefined]
       ELSE LET date == NewDate(getUTCFullYear(fromDate), getUTCMonth(fromDate), 1)
            IN MonthBlocks(date, date, toDate, c.weekDirection, c.breakpoint, Undefined, <<>>)

\* Math.max(...xs)
RECURSIVE MathMaxAll(_)
MathMaxAll(xs) ==
    IF Len(xs) = 0 THEN NegInf ELSE MathMax(Num(Head(xs)), MathMaxAll(Tail(xs)))

\* lines 397-411 and the values the call leaves behind
Aligned(c, dates, maxRowsMonth, maxColumnsGroup, monthsPerGroup, cellSize, calendarWidth, calendarHeight) ==
    LET origin == alignBox(calendarWidth, calendarHeight, Num(c.width), Num(c.height), c.align)
    IN [dates |-> dates, maxRowsMonth |-> maxRowsMonth, maxColumnsGroup |-> maxColumnsGroup,
        monthsPerGroup |-> monthsPerGroup, cellSize |-> cellSize,
        calendarWidth |-> calendarWidth, calendarHeight |-> calendarHeight,
        originX |-> origin[1], originY |-> origin[2]]

\* lines 392-396
Extents(c, dates, maxRowsMonth, maxColumnsGroup, monthsPerGroup, cellSize) ==
    LET monthsSize == NAdd(NAdd(NMul(cellSize, maxColumnsGroup),
                                NMul(Num(c.daySpacing), maxColumnsGroup)),
                           NMul(Num(c.monthSpacing), monthsPerGroup))
        yearsSize == NAdd(NMul(NMul(NAdd(cellSize, Num(c.daySpacing)), maxRowsMonth),
                               Num(Len(dates))),
                          NMul(Num(c.yearSpacing), Num(Len(dates) - 1)))
    IN Aligned(c, dates, maxRowsMonth, maxColumnsGroup, monthsPerGroup, cellSize,
               IF c.direction = "horizontal" THEN monthsSize ELSE yearsSize,
               IF c.direction = "horizontal" THEN yearsSize ELSE monthsSize)

\* lines 379-390
CellSized(c, dates, maxRowsMonth, maxColumnsGroup, monthsPerGroup) ==
    Extents(c, dates, maxRowsMonth, maxColumnsGroup, monthsPerGroup,
            computeCellSize(Num(c.width), Num(c.height), c.direction, Num(Len(dates)),
                            Num(c.yearSpacing), Num(c.monthSpacing), Num(c.daySpacing),
                            maxRowsMonth, maxColumnsGroup, monthsPerGroup))

\* lines 366-378
Grouped(c, part, monthsPerGroup) ==
    CellSized(c, part.dates,
              IF c.weekDirection = "vertical" THEN Num(7) ELSE part.maxRowsMonth,
              IF c.weekDirection = "vertical"
              THEN NAdd(MathMaxAll([j \in 1..Len(part.dates) |->
                                       timeWeeksLength(part.dates[j][1], part.dates[j][2])]),
                        Num(1))
              ELSE NMul(Num(7), monthsPerGroup),
              monthsPerGroup)

\* lines 326-411: everything computeLayout derives before it walks the blocks
Sizes(c) ==
    Grouped(c, Partition(c),
            IF c.granularity = "year" THEN NMul(c.breakpoint, Num(12)) ELSE c.breakpoint)

\* lines 413-426 and the call of line 439, which passes no startDate
cellPosition(c, z, d, i) ==
    IF c.direction = "horizontal"
    THEN IF c.weekDirection = "horizontal"
         THEN cellPositionHorizontalHorizontal(z.cellSize, Num(c.yearSpacing),
                  Num(c.monthSpacing), Num(c.daySpacing), z.maxRowsMonth,
                  z.originX, z.originY, d, Num(i), UndefinedDate)
         ELSE cellPositionHorizontalVertical(z.cellSize, Num(c.yearSpacing),
                  Num(c.monthSpacing), Num(c.daySpacing), z.maxRowsMonth,
                  z.originX, z.originY, d, Num(i), UndefinedDate)
    ELSE IF c.weekDirection = "horizontal"
         THEN cellPositionVerticalHorizontal(z.cellSize, Num(c.yearSpacing),
                  Num(c.monthSpacing), Num(c.daySpacing), z.maxRowsMonth,
                  z.originX, z.originY, d, Num(i), UndefinedDate)
         ELSE cellPositionVerticalVertical(z.cellSize, Num(c.yearSpacing),
                  Num(c.monthSpacing), Num(c.daySpacing), z.maxRowsMonth,
                  z.originX, z.originY, d, Num(i), UndefinedDate)

\* lines 435-440: one day cell; an exception of cellPosition escapes
DayCell(dayDate, cellSize, pos) ==
    IF pos = TypeError THEN TypeError
    ELSE [date |-> dayDate, day |-> dayFormat(dayDate), size |-> cellSize,
          x |-> pos.x, y |-> pos.y]

\* lines 433-442: the day cells of block i (0-based), or the exception
BlockDays(c, z, i) ==
    LET ds == timeDays(z.dates[i + 1][1], z.dates[i + 1][2])
        entries == [j \in 1..Len(ds) |-> DayCell(ds[j], z.cellSize, cellPosition(c, z, ds[j], i))]
    IN IF \E j \in 1..Len(ds) : entries[j] = TypeError THEN <<TypeError>> ELSE entries

\* lines 444-459: the month descriptors of block i
\* The call goes through memoMonthPathAndBBox. Within one run that starts from
\* an empty cache the keys of the calls differ in their date or their block
\* index, both whole, so each call runs monthPathAndBBox.
BlockMonths(c, z, i) ==
    LET date == z.dates[i + 1]
        ms == timeMonths(date[1], date[2])
    IN [j \in 1..Len(ms) |->
           LET g == monthPathAndBBox(ms[j], z.cellSize, Num(i), Num(c.yearSpacing),
                                     Num(c.monthSpacing), Num(c.daySpacing), c.direction,
                                     z.originX, z.originY)
           IN [date |-> ms[j], year |-> getFullYear(ms[j]), month |-> getMonth(ms[j]),
               path |-> g.path, bbox |-> g.bbox]]

\* lines 463-471: reads yearMonths[0] and yearMonths[11]
YearDescriptor(date, yearMonths) ==
    IF Len(yearMonths) < 12 THEN TypeError
    ELSE [year |-> date[1],
          bbox |-> [x |-> yearMonths[1].bbox.x,
                    y |-> yearMonths[1].bbox.y,
                    width |-> NAdd(NSub(yearMonths[12].bbox.x, yearMonths[1].bbox.x),
                                   yearMonths[12].bbox.width),
                    height |-> NAdd(NSub(yearMonths[12].bbox.y, yearMonths[1].bbox.y),
                                    yearMonths[12].bbox.height)]]

Thrown == [status |-> "TypeError", years |-> <<>>, months |-> <<>>, days |-> <<>>]

\* dates.forEach((date, i) => ...), from block i on
RECURSIVE ForEachBlock(_, _, _, _)
RECURSIVE BlockStep(_, _, _, _, _, _)
ForEachBlock(c, z, i, acc) ==
    IF i >= Len(z.dates) THEN acc
    ELSE BlockStep(c, z, i, acc, BlockDays(c, z, i), BlockMonths(c, z, i))

\* the body of the forEach callback for block i
BlockStep(c, z, i, acc, blockDays, yearMonths) ==
    IF blockDays = <<TypeError>> THEN Thrown
    ELSE IF YearDescriptor(z.dates[i + 1], yearMonths) = TypeError THEN Thrown
    ELSE ForEachBlock(c, z, i + 1,
                      [status |-> "returned",
                       years |-> Append(acc.years, YearDescriptor(z.dates[i + 1], yearMonths)),
                       months |-> acc.months \o yearMonths,
                       days |-> acc.days \o blockDays])

\* line 474, or the exception; dates, maxRowsMonth and maxColumnsGroup are the locals
\* of the call
Outcome(z, r) ==
    [status |-> r.status, years |-> r.years, months |-> r.months, days |-> r.days,
     cellSize |-> z.cellSize, calendarWidth |-> z.calendarWidth,
     calendarHeight |-> z.calendarHeight, originX |-> z.originX, originY |-> z.originY,
     dates |-> z.dates, maxRowsMonth |-> z.maxRowsMonth,
     maxColumnsGroup |-> z.maxColumnsGroup]

\* lines 428-474
Walk(c, z) ==
    Outcome(z, ForEachBlock(c, z, 0, [status |-> "returned", years |-> <<>>,
                                       months |-> <<>>, days |-> <<>>]))

\* lines 326-474 on the destructured parameters
Body(c) == Walk(c, Sizes(c))

\* lines 312-325: the parameter object is destructured, and a field it does not
\* hold is undefined
Destructure(c) ==
    [width |-> c.width, height |-> c.height, from |-> c.from, to |-> c.to,
     direction |-> c.direction, yearSpacing |-> c.yearSpacing,
     monthSpacing |-> c.monthSpacing, daySpacing |-> c.daySpacing, align |-> c.align,
     weekDirection |-> IF "weekDirection" \in DOMAIN c THEN c.weekDirection ELSE "undefined",
     granularity |-> IF "granularity" \in DOMAIN c THEN c.granularity ELSE "undefined",
     breakpoint |-> IF "breakpoint" \in DOMAIN c THEN Num(c.breakpoint) ELSE Undefined]

computeLayout(c) == Body(Destructure(c))

----------------------------------------------------------------------------
(* useCalendarLayout, hooks.js lines 12-37 *)

\* lines 26-36: the object the hook hands to computeLayout, built from the nine
\* fields it destructures
HookArguments(p) ==
    [width |-> p.width, height |-> p.height, from |-> p.from, to |-> p.to,
     direction |-> p.direction, yearSpacing |-> p.yearSpacing,
     monthSpacing |-> p.monthSpacing, daySpacing |-> p.daySpacing, align |-> p.align]

\* line 37: the dependency array
Dependencies(p) ==
    <<p.width, p.height, p.from, p.to, p.direction, p.yearSpacing, p.monthSpacing,
      p.daySpacing, p.align>>

\* useMemo(factory, deps): the first render and a render whose dependencies
\* differ from the kept ones run the factory, any other render returns the
\* kept value
useMemo(kept, p) ==
    IF kept.set /\ kept.deps = Dependencies(p) THEN kept
    ELSE [set |-> TRUE, deps |-> Dependencies(p), value |-> computeLayout(HookArguments(p))]

useCalendarLayout(kept, p) == useMemo(kept, p)

----------------------------------------------------------------------------
(* bindDaysData *)

\* the colour scale handed in by the caller: a function of the value
colorScale(value) == IF value = 1 THEN "#c1" ELSE IF value = 2 THEN "#c2" ELSE "#c3"

\* day[field] = v
SetField(day, field, v) ==
    [f \in DOMAIN day \cup {field} |-> IF f = field THEN v ELSE day[f]]

\* data.forEach(dayData => { if (dayData.day === day.day) {...} }), from record j on
RECURSIVE BindRecords(_, _, _)
BindRecords(day, data, j) ==
    IF j > Len(data) THEN day
    ELSE IF data[j].day = day["day"]
         THEN BindRecords(SetField(SetField(SetField(day, "value", data[j].value),
                                            "color", colorScale(data[j].value)),
                                   "data", data[j]),
                          data, j + 1)
    ELSE BindRecords(day, data, j + 1)

\* the callback of days.map: the cell object itself is written and returned
BindDay(day, data, emptyColor) == BindRecords(SetField(day, "color", emptyColor), data, 1)

bindDaysData(days, data, emptyColor) ==
    [j \in 1..Len(days) |-> BindDay(days[j], data, emptyColor)]

----------------------------------------------------------------------------
(* legend positions *)

Half(a) == NDiv(a, Num(2))

\* an 'after' anchor that leaves out the extent of the box
MutYearLegendOf(year, direction, position, offset) ==
    LET b == year.bbox
        p == IF direction = "horizontal" /\ position = "before"
             THEN [x |-> NSub(b.x, offset), y |-> NAdd(b.y, Half(b.height)), rotation |-> -90]
             ELSE IF direction = "horizontal" /\ position = "after"
             THEN [x |-> NAdd(b.x, offset), y |-> NAdd(b.y, Half(b.height)), rotation |-> -90]
             ELSE IF direction = "vertical" /\ position = "before"
             THEN [x |-> NAdd(b.x, Half(b.width)), y |-> NSub(b.y, offset), rotation |-> 0]
             ELSE [x |-> NAdd(b.x, Half(b.width)), y |-> NAdd(b.y, offset), rotation |-> 0]
    IN [year |-> year.year, bbox |-> b, x |-> p.x, y |-> p.y, rotation |-> p.rotation]

\* the callback of years.map
YearLegendOf(year, direction, position, offset) ==
    LET b == year.bbox
        p == IF direction = "horizontal" /\ position = "before"
             THEN [x |-> NSub(b.x, offset), y |-> NAdd(b.y, Half(b.height)), rotation |-> -90]
             ELSE IF direction = "horizontal" /\ position = "after"
             THEN [x |-> NAdd(NAdd(b.x, b.width), offset), y |-> NAdd(b.y, Half(b.height)),
                   rotation |-> -90]
             ELSE IF direction = "vertical" /\ position = "before"
             THEN [x |-> NAdd(b.x, Half(b.width)), y |-> NSub(b.y, offset), rotation |-> 0]
             ELSE [x |-> NAdd(b.x, Half(b.width)), y |-> NAdd(NAdd(b.y, b.height), offset),
                   rotation |-> 0]
    IN [year |-> year.year, bbox |-> b, x |-> p.x, y |-> p.y, rotation |-> p.rotation]

computeYearLegendPositions(years, direction, position, offset) ==
    [j \in 1..Len(years) |-> YearLegendOf(years[j], direction, position, offset)]

\* the callback of months.map
MonthLegendOf(month, direction, position, offset) ==
    LET b == month.bbox
        p == IF direction = "horizontal" /\ position = "before"
             THEN [x |-> NAdd(b.x, Half(b.width)), y |-> NSub(b.y, offset), rotation |-> 0]
             ELSE IF direction = "horizontal" /\ position = "after"
             THEN [x |-> NAdd(b.x, Half(b.width)), y |-> NAdd(NAdd(b.y, b.height), offset),
                   rotation |-> 0]
             ELSE IF direction = "vertical" /\ position = "before"
             THEN [x |-> NSub(b.x, offset), y |-> NAdd(b.y, Half(b.height)), rotation |-> -90]
             ELSE [x |-> NAdd(NAdd(b.x, b.width), offset), y |-> NAdd(b.y, Half(b.height)),
                   rotation |-> -90]
    IN [year |-> month.year, bbox |-> b, x |-> p.x, y |-> p.y, rotation |-> p.rotation]

computeMonthLegendPositions(months, direction, position, offset) ==
    [j \in 1..Len(months) |-> MonthLegendOf(months[j], direction, position, offset)]

----------------------------------------------------------------------------
(* Bounds and input sets *)

MaxYears == 2        \* from and to lie in 2015 .. 2014 + MaxYears
MaxBreakpoint == 3   \* breakpoint in 1 .. MaxBreakpoint
MaxCells == 2        \* day cells handed to bindDaysData
MaxData == 2         \* records of one data set
MaxItems == 2        \* descriptors handed to a legend function
MaxCalls == 2        \* calls of memoMonthPathAndBBox

Directions == {"horizontal", "vertical"}
Granularities == {"year", "month"}
Positions == {"before", "after"}
Unrecognized == "diagonal"

InputYears == 2015..(2014 + MaxYears)
\* first and fifteenth of January, March and August
InputDates == {NewDate(y, m, d) : y \in InputYears, m \in {0, 2, 7}, d \in {1, 15}}

ValidConfigs ==
    [width : {800}, height : {600}, from : InputDates, to : InputDates,
     direction : Directions, weekDirection : Directions, granularity : Granularities,
     breakpoint : 1..MaxBreakpoint, yearSpacing : {0, 30}, monthSpacing : {10},
     daySpacing : {0, 2}, align : {"center"}]

\* configurations with at least one unrecognized keyword
InvalidConfigs ==
    {c \in [width : {800}, height : {600},
            from : {NewDate(2015, 2, 1)}, to : {NewDate(2015, 0, 15), NewDate(2015, 2, 1),
                                                NewDate(2015, 7, 15)},
            direction : Directions \cup {Unrecognized},
            weekDirection : Directions \cup {Unrecognized},
            granularity : Granularities \cup {Unrecognized},
            breakpoint : {1}, yearSpacing : {30}, monthSpacing : {10},
            daySpacing : {2}, align : {"center"}] :
        \/ c.direction = Unrecognized
        \/ c.weekDirection = Unrecognized
        \/ c.granularity = Unrecognized}

Configs == ValidConfigs \cup InvalidConfigs

Valid(c) ==
    /\ c.direction \in Directions
    /\ c.weekDirection \in Directions
    /\ c.granularity \in Granularities
    /\ c.breakpoint >= 1
    /\ c.yearSpacing >= 0 /\ c.monthSpacing >= 0 /\ c.daySpacing >= 0

\* the day cells of a fresh layout: keys of consecutive days, no colour yet
CellDates == [j \in 1..MaxCells |-> NewDate(2015, 1, 27) + j]
FreshCells == [j \in 1..MaxCells |-> [f \in {"day"} |-> dayFormat(CellDates[j])]]
DataDays == {dayFormat(CellDates[j]) : j \in 1..MaxCells} \cup {dayFormat(NewDate(2016, 1, 29))}
Records == [day : DataDays, value : {1, 2}]
DataSets == UNION {[1..n -> Records] : n \in 0..MaxData}
EmptyColors == {"#fff", "#eee"}

BBoxes == [x : {Num(0), Num(10)}, y : {Num(5)}, width : {Num(7), Num(21)}, height : {Num(14)}]
Descriptors == [year : {2015}, bbox : BBoxes]
DescriptorLists == UNION {[1..n -> Descriptors] : n \in 1..MaxItems}
Offsets == {Num(0), Num(10)}
LegendInputs ==
    [items : DescriptorLists, direction : Directions \cup {Unrecognized}, offset : Offsets]

\* argument objects of memoMonthPathAndBBox; the origins are whole numbers and tenths
MemoArgs ==
    [date : {NewDate(2015, 0, 1), NewDate(2015, 1, 1)}, cellSize : {Num(10)},
     yearIndex : {Num(0), Num(1)}, yearSpacing : {Num(30)}, monthSpacing : {Num(10)},
     daySpacing : {Num(2)}, direction : Directions,
     originX : {Num(1), Fin(15, 10)}, originY : {Num(2), Fin(52, 10)}]

\* configurations of the component that renders with useCalendarLayout
HookConfigs ==
    [width : {800}, height : {600},
     from : {NewDate(2015, 0, 1), NewDate(2015, 2, 15)},
     to : {NewDate(2015, 0, 1), NewDate(2015, 7, 15)},
     direction : Directions, weekDirection : Directions, granularity : Granularities,
     breakpoint : {1, MaxBreakpoint}, yearSpacing : {30}, monthSpacing : {10},
     daySpacing : {2}, align : {"center"}]

----------------------------------------------------------------------------
(* The callers *)

NoLayout == [status |-> "none"]
NoConfig == [width |-> 0]
NoData == [data |-> <<>>, emptyColor |-> "none"]
NoLegendInput == [items |-> <<>>]
NoResult == <<>>
AllPositions == Positions \cup {Unrecognized}
NoCall == [n |-> 0]
NoMemo == [set |-> FALSE]

IdleLayout == cfg = NoConfig /\ layout = NoLayout
IdleBind == cells = <<>> /\ lastData = NoData
IdleLegend ==
    /\ legendIn = NoLegendInput
    /\ yearLegend = [p \in AllPositions |-> NoResult]
    /\ monthLegend = [p \in AllPositions |-> NoResult]
\* the module has just been loaded: memoize starts with an empty cache
IdleMemo == cache = {} /\ memoCall = NoCall
IdleHook == props = NoConfig /\ memo = NoMemo /\ hookOut = NoLayout

InitLayout ==
    /\ mode = "layout" /\ pc = "start"
    /\ cfg \in Configs /\ layout = NoLayout
    /\ IdleBind /\ IdleLegend /\ IdleMemo /\ IdleHook

InitBind ==
    /\ mode = "bind" /\ pc = "start"
    /\ cells = FreshCells /\ lastData = NoData
    /\ IdleLayout /\ IdleLegend /\ IdleMemo /\ IdleHook

InitLegend ==
    /\ mode = "legend" /\ pc = "start"
    /\ legendIn \in LegendInputs
    /\ yearLegend = [p \in AllPositions |-> NoResult]
    /\ monthLegend = [p \in AllPositions |-> NoResult]
    /\ IdleLayout /\ IdleBind /\ IdleMemo /\ IdleHook

InitMemo ==
    /\ mode = "memo" /\ pc = "start"
    /\ IdleMemo
    /\ IdleLayout /\ IdleBind /\ IdleLegend /\ IdleHook

\* the component is mounted with a configuration and has not rendered yet
InitHook ==
    /\ mode = "hook" /\ pc = "start"
    /\ props \in HookConfigs /\ memo = NoMemo /\ hookOut = NoLayout
    /\ IdleLayout /\ IdleBind /\ IdleLegend /\ IdleMemo

\* the caller runs computeLayout on its configuration
ComputeLayout ==
    /\ mode = "layout" /\ pc = "start"
    /\ layout' = computeLayout(cfg)
    /\ pc' = "done"
    /\ UNCHANGED <<mode, cfg, cells, lastData, legendIn, yearLegend, monthLegend, memoVars, hookVars>>

\* the caller binds a data set to the cells it holds
BindDaysData ==
    /\ mode = "bind"
    /\ \E data \in DataSets, emptyColor \in EmptyColors :
          /\ cells' = bindDaysData(cells, data, emptyColor)
          /\ lastData' = [data |-> data, emptyColor |-> emptyColor]
    /\ pc' = "bound"
    /\ UNCHANGED <<mode, cfg, layout, legendIn, yearLegend, monthLegend, memoVars, hookVars>>

ComputeYearLegendPositions ==
    /\ mode = "legend"
    /\ \E position \in AllPositions :
          yearLegend' = [yearLegend EXCEPT ![position] =
              computeYearLegendPositions(legendIn.items, legendIn.direction, position,
                                         legendIn.offset)]
    /\ pc' = "done"
    /\ UNCHANGED <<mode, cfg, layout, cells, lastData, legendIn, monthLegend, memoVars, hookVars>>

ComputeMonthLegendPositions ==
    /\ mode = "legend"
    /\ \E position \in AllPositions :
          monthLegend' = [monthLegend EXCEPT ![position] =
              computeMonthLegendPositions(legendIn.items, legendIn.direction, position,
                                          legendIn.offset)]
    /\ pc' = "done"
    /\ UNCHANGED <<mode, cfg, layout, cells, lastData, legendIn, yearLegend, memoVars, hookVars>>

\* a caller inside the module calls memoMonthPathAndBBox with an argument object
MemoMonthPathAndBBox ==
    /\ mode = "memo" /\ memoCall.n < MaxCalls
    /\ \E a \in MemoArgs :
          /\ cache' = memoMonthPathAndBBox(cache, a).cache
          /\ memoCall' = [n |-> memoCall.n + 1, args |-> a,
                          out |-> memoMonthPathAndBBox(cache, a).out]
    /\ pc' = "called"
    /\ UNCHANGED <<mode, cfg, layout, cells, lastData, legendIn, yearLegend, monthLegend, hookVars>>

\* the owner of the component changes its configuration
SetProps ==
    /\ mode = "hook"
    /\ \E p \in HookConfigs : p # props /\ props' = p
    /\ pc' = "changed"
    /\ UNCHANGED <<mode, cfg, layout, cells, lastData, legendIn, yearLegend, monthLegend, memoVars, memo, hookOut>>

\* the component renders: it calls useCalendarLayout with its configuration
Render ==
    /\ mode = "hook"
    /\ memo' = useCalendarLayout(memo, props)
    /\ hookOut' = useCalendarLayout(memo, props).value
    /\ pc' = "rendered"
    /\ UNCHANGED <<mode, cfg, layout, cells, lastData, legendIn, yearLegend, monthLegend, memoVars, props>>

NextLayout == ComputeLayout
NextBind == BindDaysData
NextLegend == ComputeYearLegendPositions \/ ComputeMonthLegendPositions
NextMemo == MemoMonthPathAndBBox
NextHook == SetProps \/ Render

SpecLayout == InitLayout /\ [][NextLayout]_vars
SpecBind == InitBind /\ [][NextBind]_vars
SpecLegend == InitLegend /\ [][NextLegend]_vars
SpecMemo == InitMemo /\ [][NextMemo]_vars
SpecHook == InitHook /\ [][NextHook]_vars

Init == InitLayout \/ InitBind \/ InitLegend \/ InitMemo \/ InitHook
Next ==
    \/ ComputeLayout \/ BindDaysData
    \/ ComputeYearLegendPositions \/ ComputeMonthLegendPositions
    \/ MemoMonthPathAndBBox
    \/ SetProps \/ Render
Spec == Init /\ [][Next]_vars

----------------------------------------------------------------------------
(* Properties of the layout engine *)

LayoutDone == mode = "layout" /\ pc = "done"
ValidRange == LayoutDone /\ Valid(cfg) /\ cfg.from <= cfg.to

\* first day of the granularity unit (year or month) that holds t, and of the next unit
UnitStart(t, granularity) ==
    IF granularity = "year" THEN NewDate(getFullYear(t), 0, 1)
    ELSE NewDate(getFullYear(t), getMonth(t), 1)
UnitAfter(t, granularity) ==
    IF granularity = "year" THEN NewDate(getFullYear(t) + 1, 0, 1)
    ELSE NewDate(getFullYear(t), getMonth(t) + 1, 1)

\* ordered, contiguous, non-overlapping
Chained(dates) ==
    /\ \A j \in 1..Len(dates) : dates[j][1] < dates[j][2]
    /\ \A j \in 1..(Len(dates) - 1) : dates[j][2] = dates[j + 1][1]

\* C1 as stated: for from <= to the blocks are ordered, contiguous and non-overlapping
\* and their union runs from the first day of from's year/month to the first day of
\* the year/month after the one that holds to, with no unit added after it.
C1_BlocksCoverRoundedRange ==
    ValidRange =>
        /\ Chained(layout.dates)
        /\ Len(layout.dates) >= 1
        /\ layout.dates[1][1] = UnitStart(cfg.from, cfg.granularity)
        /\ layout.dates[Len(layout.dates)][2] = UnitAfter(cfg.to, cfg.granularity)

\* C1 amended: the blocks are ordered, contiguous and non-overlapping; with year
\* granularity they run from January 1 of from's year to January 1 of the year after
\* to's year; with month granularity the list is empty when the first day of from's
\* month is not before to, and otherwise it starts at the first day of from's month,
\* every block spans exactly breakpoint months, and the last block is the first one
\* whose end is not before to.
C1_BlocksPartition ==
    ValidRange =>
        /\ Chained(layout.dates)
        /\ cfg.granularity = "year" =>
              /\ Len(layout.dates) >= 1
              /\ layout.dates[1][1] = UnitStart(cfg.from, "year")
              /\ layout.dates[Len(layout.dates)][2] = UnitAfter(cfg.to, "year")
        /\ cfg.granularity = "month" =>
              IF UnitStart(cfg.from, "month") >= cfg.to
              THEN layout.dates = <<>>
              ELSE /\ Len(layout.dates) >= 1
                   /\ layout.dates[1][1] = UnitStart(cfg.from, "month")
                   /\ \A j \in 1..Len(layout.dates) :
                         layout.dates[j][2] =
                             NewDate(getFullYear(layout.dates[j][1]),
                                     getMonth(layout.dates[j][1]) + cfg.breakpoint, 1)
                   /\ layout.dates[Len(layout.dates)][1] < cfg.to
                   /\ layout.dates[Len(layout.dates)][2] >= cfg.to

\* a month layout of several blocks whose last block runs past the month after to's
C1_Witness ==
    /\ ValidRange
    /\ cfg.granularity = "month"
    /\ cfg.breakpoint > 1
    /\ Len(layout.dates) >= 2
    /\ layout.dates[Len(layout.dates)][2] > UnitAfter(cfg.to, "month")

\* at least one block was built from a valid range
SomeBlock == ValidRange /\ Len(layout.dates) >= 1

\* the days of block j of the layout
BlockDates(j) == layout.dates[j][1]..(layout.dates[j][2] - 1)

\* C2: the returned days hold exactly one entry per calendar day of every block, the
\* YYYY-MM-DD keys are pairwise distinct, and inside a block the entries are in
\* non-decreasing date order.
C2_OneCellPerDay ==
    ValidRange =>
        /\ layout.status = "returned"
        /\ \A j \in 1..Len(layout.dates) : \A t \in BlockDates(j) :
              Cardinality({i \in 1..Len(layout.days) : layout.days[i].date = t}) = 1
        /\ \A i \in 1..Len(layout.days) :
              /\ \E j \in 1..Len(layout.dates) : layout.days[i].date \in BlockDates(j)
              /\ layout.days[i].day = dayFormat(layout.days[i].date)
        /\ \A i1, i2 \in 1..Len(layout.days) :
              i1 # i2 => layout.days[i1].day # layout.days[i2].day
        /\ \A i1, i2 \in 1..Len(layout.days) :
              (/\ i1 < i2
               /\ \E j \in 1..Len(layout.dates) :
                     {layout.days[i1].date, layout.days[i2].date} \subseteq BlockDates(j))
              => layout.days[i1].date <= layout.days[i2].date

\* C3: the extents computeLayout returns fit the canvas on both axes.
C3_CalendarFitsCanvas ==
    (ValidRange /\ layout.status = "returned") =>
        /\ NLe(layout.calendarWidth, Num(cfg.width))
        /\ NLe(layout.calendarHeight, Num(cfg.height))

\* the square [x, x + size] x [y, y + size] lies inside bbox
SquareInside(cell, bbox) ==
    /\ NLe(bbox.x, cell.x)
    /\ NLe(bbox.y, cell.y)
    /\ NLe(NAdd(cell.x, cell.size), NAdd(bbox.x, bbox.width))
    /\ NLe(NAdd(cell.y, cell.size), NAdd(bbox.y, bbox.height))

\* C4: computeLayout puts out day cells and month descriptors such that every cell's
\* square lies inside the bbox of the month of its block with its year and month.
C4_CellInsideMonthBBox ==
    SomeBlock =>
        /\ layout.status = "returned"
        /\ \A i \in 1..Len(layout.days) :
              \E k \in 1..Len(layout.months) :
                  /\ layout.months[k].year = getFullYear(layout.days[i].date)
                  /\ layout.months[k].month = getMonth(layout.days[i].date)
        /\ \A i \in 1..Len(layout.days) : \A k \in 1..Len(layout.months) :
              (/\ layout.months[k].year = getFullYear(layout.days[i].date)
               /\ layout.months[k].month = getMonth(layout.days[i].date))
              => SquareInside(layout.days[i], layout.months[k].bbox)

\* least and greatest element of a non-empty set of finite numbers
Least(S) == CHOOSE m \in S : \A o \in S : NLe(m, o)
Greatest(S) == CHOOSE m \in S : \A o \in S : NLe(o, m)

\* the union rectangle of a non-empty set of boxes
UnionRect(boxes) ==
    LET x0 == Least({b.x : b \in boxes})
        y0 == Least({b.y : b \in boxes})
    IN [x |-> x0, y |-> y0,
        width |-> NSub(Greatest({NAdd(b.x, b.width) : b \in boxes}), x0),
        height |-> NSub(Greatest({NAdd(b.y, b.height) : b \in boxes}), y0)]

\* C5: computeLayout emits one year descriptor per block, and its bbox is the union
\* rectangle of the bboxes of the months of that block.
C5_YearBBoxIsUnionOfMonths ==
    SomeBlock =>
        /\ layout.status = "returned"
        /\ Len(layout.years) = Len(layout.dates)
        /\ \A j \in 1..Len(layout.years) :
              layout.years[j].bbox =
                  UnionRect({layout.months[k].bbox :
                                k \in {k \in 1..Len(layout.months) :
                                          layout.months[k].date \in BlockDates(j)}})

\* C9: with to before from, computeLayout builds an empty block list or raises a
\* precondition error, and what it returns has no negative extent.
C9_InvertedRangeRejected ==
    (LayoutDone /\ Valid(cfg) /\ cfg.to < cfg.from) =>
        /\ Len(layout.dates) = 0 \/ layout.status = "PreconditionError"
        /\ layout.status = "returned" =>
              /\ NLe(Num(0), layout.cellSize)
              /\ NLe(Num(0), layout.calendarWidth)
              /\ NLe(Num(0), layout.calendarHeight)

\* the scan C10 describes, over the months first, first + 1, ... of one block
RECURSIVE RowsOfBlock(_, _, _, _)
RowsOfBlock(first, breakpoint, rows, i) ==
    IF i >= breakpoint \/ rows = 6 THEN rows
    ELSE LET month == NewDate(getFullYear(first), getMonth(first) + i, 1)
             s == DaysInMonth(getFullYear(month), getMonth(month)) + getDay(month)
         IN IF s >= 37 THEN 6
            ELSE IF s = 28 THEN RowsOfBlock(first, breakpoint, IF rows > 4 THEN rows ELSE 4, i + 1)
            ELSE RowsOfBlock(first, breakpoint, 5, i + 1)

RECURSIVE RowsOfBlocks(_, _, _, _)
RowsOfBlocks(dates, breakpoint, rows, j) ==
    IF j > Len(dates) THEN rows
    ELSE RowsOfBlocks(dates, breakpoint, RowsOfBlock(dates[j][1], breakpoint, rows, 0), j + 1)

\* C10: with month granularity and horizontal weeks, maxRowsMonth is a number in
\* {4, 5, 6}: the outcome of scanning the breakpoint months of a block with
\* s = days of the month + weekday of its first day (6 once s >= 37 and for good,
\* the running maximum with 4 when s = 28, else 5).
C10_MaxRowsMonthScan ==
    (SomeBlock /\ cfg.granularity = "month" /\ cfg.weekDirection = "horizontal") =>
        /\ layout.maxRowsMonth \in {Num(4), Num(5), Num(6)}
        /\ layout.maxRowsMonth = Num(RowsOfBlocks(layout.dates, cfg.breakpoint, 0, 1))

----------------------------------------------------------------------------
(* Properties of the data binder *)

\* the records of the latest data set that carry the key of a cell
Matches(cell) == {i \in 1..Len(lastData.data) : lastData.data[i].day = cell["day"]}
LastMatch(cell) == lastData.data[CHOOSE i \in Matches(cell) : \A o \in Matches(cell) : o <= i]

\* C6: after any sequence of bindDaysData calls on the same cells, every cell shows
\* the latest data set only: value, colour and record of the last record with its
\* key, or emptyColor and neither value nor data when no record has its key.
C6_CellsReflectLatestData ==
    (mode = "bind" /\ pc = "bound") =>
        \A j \in 1..Len(cells) :
            IF Matches(cells[j]) # {}
            THEN /\ {"value", "data"} \subseteq DOMAIN cells[j]
                 /\ cells[j]["value"] = LastMatch(cells[j]).value
                 /\ cells[j]["color"] = colorScale(LastMatch(cells[j]).value)
                 /\ cells[j]["data"] = LastMatch(cells[j])
            ELSE /\ cells[j]["color"] = lastData.emptyColor
                 /\ "value" \notin DOMAIN cells[j]
                 /\ "data" \notin DOMAIN cells[j]

----------------------------------------------------------------------------
(* Properties of the legend position functions *)

BothSides(legend) == legend["before"] # NoResult /\ legend["after"] # NoResult
Reach(extent) == NAdd(NMul(Num(2), legendIn.offset), extent)

\* the label sits left or right of the box: the anchors differ along x
AcrossX(before, after, bbox) ==
    /\ after.rotation = before.rotation
    /\ after.y = before.y
    /\ NSub(after.x, before.x) = Reach(bbox.width)

\* the label sits above or below the box: the anchors differ along y
AcrossY(before, after, bbox) ==
    /\ after.rotation = before.rotation
    /\ after.x = before.x
    /\ NSub(after.y, before.y) = Reach(bbox.height)

\* C7: for a fixed bbox, direction and offset, the 'before' and 'after' anchors of
\* both legend functions agree on the other axis and on the rotation, and lie
\* 2 * offset + the extent of the bbox apart along the offset axis.
C7_LegendAnchorsSymmetric ==
    (mode = "legend" /\ legendIn.direction \in Directions) =>
        /\ BothSides(yearLegend) =>
              \A j \in 1..Len(legendIn.items) :
                  IF legendIn.direction = "horizontal"
                  THEN AcrossX(yearLegend["before"][j], yearLegend["after"][j],
                               legendIn.items[j].bbox)
                  ELSE AcrossY(yearLegend["before"][j], yearLegend["after"][j],
                               legendIn.items[j].bbox)
        /\ BothSides(monthLegend) =>
              \A j \in 1..Len(legendIn.items) :
                  IF legendIn.direction = "horizontal"
                  THEN AcrossY(monthLegend["before"][j], monthLegend["after"][j],
                               legendIn.items[j].bbox)
                  ELSE AcrossX(monthLegend["before"][j], monthLegend["after"][j],
                               legendIn.items[j].bbox)

\* both functions ran for both positions on several boxes with a non-zero offset
C7_Witness ==
    /\ mode = "legend"
    /\ legendIn.direction = "horizontal"
    /\ legendIn.offset = Num(10)
    /\ Len(legendIn.items) = 2
    /\ legendIn.items[1].bbox.width # legendIn.items[2].bbox.width
    /\ BothSides(yearLegend)
    /\ BothSides(monthLegend)

ConfigError == <<[error |-> "configuration"]>>

\* C8: an unrecognized direction, weekDirection, granularity or position ends in a
\* configuration error, never in a result computed through an else branch.
C8_UnrecognizedKeywordRejected ==
    /\ (mode = "legend") =>
          \A p \in AllPositions :
              (p \notin Positions \/ legendIn.direction \notin Directions) =>
                  /\ yearLegend[p] # NoResult => yearLegend[p] = ConfigError
                  /\ monthLegend[p] # NoResult => monthLegend[p] = ConfigError
    /\ (/\ LayoutDone
        /\ \/ cfg.direction \notin Directions
           \/ cfg.weekDirection \notin Directions
           \/ cfg.granularity \notin Granularities)
       => layout.status = "ConfigError"

----------------------------------------------------------------------------
(* The positions of the day cells *)

\* block j (1-based) holds the day t
InBlock(t, j) == layout.dates[j][1] <= t /\ t < layout.dates[j][2]

\* cellSize + daySpacing of the layout
LayoutStride == NAdd(layout.cellSize, Num(cfg.daySpacing))

\* the offset C11 gives along the axis the blocks are stacked on, for day t of block j
StatedBlockAxis(t, j) ==
    NAdd(NAdd(NMul(Num(IF cfg.weekDirection = "horizontal" THEN getWeekOfTheMonth(t)
                       ELSE getDay(t)),
                   LayoutStride),
              NDiv(Num(cfg.daySpacing), Num(2))),
         NMul(Num(j - 1),
              NAdd(Num(cfg.yearSpacing), NMul(layout.maxRowsMonth, LayoutStride))))

\* months and whole weeks from the block start s to the day t
MonthsElapsed(s, t) == getMonth(t) - getMonth(s) + 12 * (getFullYear(t) - getFullYear(s))
WeeksElapsed(s, t) == (WeekFloor(t) - WeekFloor(s)) \div 7

\* the offset C11 gives along the axis the months run on, for day t of block j
StatedContinuousAxis(t, j) ==
    LET s == layout.dates[j][1]
        m == Num(MonthsElapsed(s, t))
    IN IF cfg.weekDirection = "horizontal"
       THEN NAdd(NAdd(NAdd(NMul(NMul(m, Num(7)), LayoutStride),
                           NMul(Num(getDay(t)), LayoutStride)),
                      NDiv(Num(cfg.daySpacing), Num(2))),
                 NMul(m, Num(cfg.monthSpacing)))
       ELSE NAdd(NAdd(NMul(Num(WeeksElapsed(s, t)), LayoutStride),
                      NDiv(Num(cfg.daySpacing), Num(2))),
                 NMul(m, Num(cfg.monthSpacing)))

\* C11: computeLayout places day t of block j at the origin plus the offset along
\* the block axis and the offset along the continuous axis; direction horizontal
\* puts the continuous axis on x, direction vertical puts it on y.
C11_CellPositionFormula ==
    SomeBlock =>
        /\ layout.status = "returned"
        /\ \A i \in 1..Len(layout.days) : \A j \in 1..Len(layout.dates) :
              InBlock(layout.days[i].date, j) =>
                  IF cfg.direction = "horizontal"
                  THEN /\ layout.days[i].x =
                             NAdd(layout.originX, StatedContinuousAxis(layout.days[i].date, j))
                       /\ layout.days[i].y =
                             NAdd(layout.originY, StatedBlockAxis(layout.days[i].date, j))
                  ELSE /\ layout.days[i].x =
                             NAdd(layout.originX, StatedBlockAxis(layout.days[i].date, j))
                       /\ layout.days[i].y =
                             NAdd(layout.originY, StatedContinuousAxis(layout.days[i].date, j))

----------------------------------------------------------------------------
(* The memoized month geometry *)

\* C12: whatever calls came before, a call of the memoized function returns the
\* path and bbox the unmemoized monthPathAndBBox returns for the same arguments.
C12_MemoEqualsUnmemoized ==
    mode = "memo" /\ pc = "called" => memoCall.out = monthPathAndBBoxOf(memoCall.args)

----------------------------------------------------------------------------
(* The layout hook *)

\* what a caller of computeLayout sees: the returned object of line 474, or the
\* exception
Returned(r) ==
    IF r.status = "returned"
    THEN [status |-> r.status, years |-> r.years, months |-> r.months, days |-> r.days,
          cellSize |-> r.cellSize, calendarWidth |-> r.calendarWidth,
          calendarHeight |-> r.calendarHeight, originX |-> r.originX, originY |-> r.originY]
    ELSE [status |-> r.status]

\* C13: whatever configuration changes came before, the layout the hook returns
\* at a render is the layout computeLayout gives for the whole current
\* configuration, weekDirection, granularity and breakpoint included.
C13_HookFollowsConfiguration ==
    mode = "hook" /\ pc = "rendered" => Returned(hookOut) = Returned(computeLayout(props))

====
